---- MODULE Spec2Model ----
(***************************************************************************)
(* vLLM proxy (src/proxy/app/main.py): a FastAPI application that forwards *)
(* every request to a vLLM backend and logs the request prompt, the token  *)
(* usage and the response text.                                            *)
(*                                                                         *)
(* One request is followed from its arrival to its end.  JSON documents    *)
(* are tagged records, raw bodies are the JSON text itself, and an SSE     *)
(* byte stream is a sequence of atoms (see Atom below).                    *)
(***************************************************************************)
EXTENDS Integers, Sequences, FiniteSets, TLC

(***************************************************************************)
(* Bounds of the model.                                                    *)
(***************************************************************************)
\* Most `data: {json}` frames an upstream SSE stream carries before [DONE].
MaxFrames == 2

(***************************************************************************)
(* JSON values as Python sees them after json.loads.                       *)
(* An object keeps its members in document order, as a Python dict does.   *)
(***************************************************************************)
JNull == [t |-> "null"]
JBool(b) == [t |-> "bool", b |-> b]
JNum(n) == [t |-> "num", n |-> n]
JStr(s) == [t |-> "str", s |-> s]
JList(items) == [t |-> "list", items |-> items]
JObj(kv) == [t |-> "obj", kv |-> kv]

\* Python's None (body = None, dict.get of a missing key) is JSON null.
None == JNull

\* bool(v): the truth value Python gives a decoded JSON value.
Truthy(v) ==
    CASE v.t = "null" -> FALSE
      [] v.t = "bool" -> v.b
      [] v.t = "num" -> v.n # 0
      [] v.t = "str" -> v.s # ""
      [] v.t = "list" -> v.items # <<>>
      [] v.t = "obj" -> v.kv # <<>>

\* key in d, for a dict d.
HasKey(d, key) == \E i \in 1..Len(d.kv) : d.kv[i][1] = key

\* d.get(key): the value of the member, None when the key is missing.
Get(d, key) ==
    IF HasKey(d, key)
    THEN d.kv[CHOOSE i \in 1..Len(d.kv) : d.kv[i][1] = key][2]
    ELSE None

\* sep.join(parts) for a list of strings.
RECURSIVE Join(_, _)
Join(parts, sep) ==
    IF parts = <<>> THEN ""
    ELSE IF Len(parts) = 1 THEN parts[1]
    ELSE parts[1] \o sep \o Join(Tail(parts), sep)

\* The decimal text of a natural number.
Digit(d) == <<"0", "1", "2", "3", "4", "5", "6", "7", "8", "9">>[d + 1]

RECURSIVE NumStr(_)
NumStr(n) == IF n < 10 THEN Digit(n) ELSE NumStr(n \div 10) \o Digit(n % 10)

\* json.dumps(v) with Python's default separators (", " and ": ").
RECURSIVE Dumps(_)
Dumps(v) ==
    CASE v.t = "null" -> "null"
      [] v.t = "bool" -> IF v.b THEN "true" ELSE "false"
      [] v.t = "num" -> NumStr(v.n)
      [] v.t = "str" -> "\"" \o v.s \o "\""
      [] v.t = "list" ->
            "[" \o Join([i \in 1..Len(v.items) |-> Dumps(v.items[i])], ", ") \o "]"
      [] v.t = "obj" ->
            "{" \o Join([i \in 1..Len(v.kv) |->
                            "\"" \o v.kv[i][1] \o "\": " \o Dumps(v.kv[i][2])], ", ")
                \o "}"

\* repr(v): Python's own rendering, which is not JSON (None, True, 'text').
RECURSIVE PyRepr(_)
PyRepr(v) ==
    CASE v.t = "null" -> "None"
      [] v.t = "bool" -> IF v.b THEN "True" ELSE "False"
      [] v.t = "num" -> NumStr(v.n)
      [] v.t = "str" -> "'" \o v.s \o "'"
      [] v.t = "list" ->
            "[" \o Join([i \in 1..Len(v.items) |-> PyRepr(v.items[i])], ", ") \o "]"
      [] v.t = "obj" ->
            "{" \o Join([i \in 1..Len(v.kv) |->
                            "'" \o v.kv[i][1] \o "': " \o PyRepr(v.kv[i][2])], ", ")
                \o "}"

\* str(v), and what an f-string writes for {v}: a string is written as it is.
PyStr(v) == IF v.t = "str" THEN v.s ELSE PyRepr(v)

(***************************************************************************)
(* Outcomes of a Python expression: a value, or an exception raised.       *)
(***************************************************************************)
Ok(v) == [raised |-> FALSE, v |-> v]
Raise == [raised |-> TRUE, v |-> ""]

\* sub in s for two strings.  The strings of the model hold the words looked
\* for ("messages", "prompt", "message", "text") only as the whole string.
StrContains(s, sub) == s = sub

\* key in v: dict membership, list element equality, substring of a str;
\* a number, a boolean or None is not iterable (TypeError).
In(key, v) ==
    CASE v.t = "obj" -> Ok(HasKey(v, key))
      [] v.t = "list" -> Ok(\E i \in 1..Len(v.items) : v.items[i] = JStr(key))
      [] v.t = "str" -> Ok(StrContains(v.s, key))
      [] OTHER -> Raise

\* for m in v: the elements of a list, the keys of a dict, the characters of
\* a str (each a str; which character does not matter to a caller that only
\* asks for its type); anything else is not iterable (TypeError).
Iter(v) ==
    CASE v.t = "list" -> Ok(v.items)
      [] v.t = "obj" -> Ok([i \in 1..Len(v.kv) |-> JStr(v.kv[i][1])])
      [] v.t = "str" -> Ok([i \in 1..Len(v.s) |-> JStr("c")])
      [] OTHER -> Raise

\* s[:n].  No text of the model is longer than the cut it meets.
Prefix(s, n) == IF Len(s) <= n THEN s ELSE "(first characters)"

\* c.get("text") or c.get("input") or str(c) for a dict part, str(c) otherwise.
PartText(c) ==
    IF c.t = "obj"
    THEN IF Truthy(Get(c, "text")) THEN Get(c, "text")
         ELSE IF Truthy(Get(c, "input")) THEN Get(c, "input")
         ELSE JStr(PyStr(c))
    ELSE JStr(PyStr(c))

\* The subsequence of the truthy elements.
RECURSIVE TruthyOnly(_)
TruthyOnly(vs) ==
    IF vs = <<>> THEN <<>>
    ELSE IF Truthy(Head(vs)) THEN <<Head(vs)>> \o TruthyOnly(Tail(vs))
    ELSE TruthyOnly(Tail(vs))

\* One pass of the loop over body["messages"]: the rendering of message m.
RenderMessage(m) ==
    IF m.t # "obj" THEN Raise      \* m.get: AttributeError
    ELSE
    LET role == IF HasKey(m, "role") THEN Get(m, "role") ELSE JStr("unknown")
        tag == "[" \o PyStr(role) \o "]"
        content == Get(m, "content")
    IN  CASE content.t = "null" ->
                LET extra == IF HasKey(m, "tool_calls") /\ Truthy(Get(m, "tool_calls"))
                             THEN " (tool_calls)" ELSE ""
                IN  Ok(tag \o " (no content)" \o extra)
          [] content.t = "str" -> Ok(tag \o " " \o content.s)
          [] content.t = "list" ->
                LET texts == [i \in 1..Len(content.items) |-> PartText(content.items[i])]
                    kept == TruthyOnly(texts)
                IN  IF \E i \in 1..Len(kept) : kept[i].t # "str"
                    THEN Raise     \* " ".join of a non-str: TypeError
                    ELSE IF kept = <<>> THEN Ok(tag \o " (empty parts)")
                    ELSE Ok(tag \o " " \o Join([i \in 1..Len(kept) |-> kept[i].s], " "))
          [] OTHER -> Ok(tag \o " " \o Prefix(Dumps(content), 500))

\* A faulty variant of extract_prompt_from_body: a prompt is serialized even
\* when it is a string.
extract_prompt_from_body_reserialized(body) ==
    LET inM == In("messages", body) IN
    IF inM.raised THEN Raise
    ELSE IF inM.v
    THEN IF body.t # "obj" THEN Raise   \* body["messages"] of a list or a str
         ELSE LET msgs == Get(body, "messages")
                  it == Iter(msgs)
              IN  IF it.raised THEN Raise
                  ELSE LET rs == [i \in 1..Len(it.v) |-> RenderMessage(it.v[i])]
                       IN  IF \E i \in 1..Len(rs) : rs[i].raised THEN Raise
                           ELSE IF rs = <<>> THEN Ok(Dumps(msgs))
                           ELSE Ok(Join([i \in 1..Len(rs) |-> rs[i].v], "\n"))
    ELSE IF In("prompt", body).v
    THEN IF body.t # "obj" THEN Raise   \* body["prompt"] of a list or a str
         ELSE LET p == Get(body, "prompt")
              IN  Ok(Dumps(p))
    ELSE Ok("(prompt not found)")

\* extract_prompt_from_body(body): the prompt text, or an exception.
extract_prompt_from_body(body) ==
    LET inM == In("messages", body) IN
    IF inM.raised THEN Raise
    ELSE IF inM.v
    THEN IF body.t # "obj" THEN Raise   \* body["messages"] of a list or a str
         ELSE LET msgs == Get(body, "messages")
                  it == Iter(msgs)
              IN  IF it.raised THEN Raise
                  ELSE LET rs == [i \in 1..Len(it.v) |-> RenderMessage(it.v[i])]
                       IN  IF \E i \in 1..Len(rs) : rs[i].raised THEN Raise
                           ELSE IF rs = <<>> THEN Ok(Dumps(msgs))
                           ELSE Ok(Join([i \in 1..Len(rs) |-> rs[i].v], "\n"))
    ELSE IF In("prompt", body).v
    THEN IF body.t # "obj" THEN Raise   \* body["prompt"] of a list or a str
         ELSE LET p == Get(body, "prompt")
              IN  Ok(IF p.t = "str" THEN p.s ELSE Dumps(p))
    ELSE Ok("(prompt not found)")

\* extract_usage_from_response(data): the three counters as the response
\* gives them (any JSON value), 0 for a missing one; or an exception.
extract_usage_from_response(data) ==
    IF data.t # "obj" THEN Raise        \* data.get: AttributeError
    ELSE
    LET u == Get(data, "usage")
        usage == IF Truthy(u) THEN u ELSE JObj(<<>>)
        field(k) == IF HasKey(usage, k) THEN Get(usage, k) ELSE JNum(0)
    IN  IF usage.t # "obj" THEN Raise   \* usage.get: AttributeError
        ELSE Ok([prompt_tokens |-> field("prompt_tokens"),
                 completion_tokens |-> field("completion_tokens"),
                 total_tokens |-> field("total_tokens")])

\* extract_response_text(data): the generated text (whatever JSON value the
\* `text` member holds, in the legacy shape), or an exception.
extract_response_text(data) ==
    IF data.t # "obj" THEN Raise        \* data.get: AttributeError
    ELSE
    LET c == Get(data, "choices")
        choices == IF Truthy(c) THEN c ELSE JList(<<>>)
    IN  IF ~Truthy(choices) THEN Ok(JStr("(no choices)"))
        ELSE IF choices.t \notin {"list", "str"} THEN Raise   \* choices[0]
        ELSE
        LET choice == IF choices.t = "list" THEN choices.items[1] ELSE JStr("c")
            inMsg == In("message", choice)
        IN  IF inMsg.raised THEN Raise
            ELSE IF inMsg.v
            THEN IF choice.t # "obj" THEN Raise               \* choice["message"]
                 ELSE LET msg == Get(choice, "message")
                      IN  IF msg.t # "obj" THEN Raise         \* msg.get
                          ELSE LET content == Get(msg, "content")
                               IN  Ok(IF content.t = "str" THEN content
                                      ELSE JStr(Dumps(content)))
            ELSE IF In("text", choice).v
            THEN IF choice.t # "obj" THEN Raise               \* choice["text"]
                 ELSE Ok(Get(choice, "text"))
            ELSE Ok(JStr("(no content)"))

(***************************************************************************)
(* JSON texts.  A raw body is the text itself; json_loads is the parser on *)
(* the texts the model uses.  Any other text ("", "not json") is no JSON.  *)
(***************************************************************************)
Member(k, v) == <<k, v>>

\* The text s written n times.
RECURSIVE Repeat(_, _)
Repeat(s, n) ==
    IF n = 0 THEN ""
    ELSE IF n % 2 = 0 THEN LET half == Repeat(s, n \div 2) IN half \o half
    ELSE s \o Repeat(s, n - 1)

\* A prompt longer than 2000 characters and a three-character marker.
LongText == Repeat("x", 2004)
UserHi == JObj(<<Member("role", JStr("user")), Member("content", JStr("hi"))>>)

JsonDocs ==
    << <<"{\"messages\":[{\"role\":\"user\",\"content\":\"hi\"}],\"stream\":false}",
         JObj(<<Member("messages", JList(<<UserHi>>)), Member("stream", JBool(FALSE))>>)>>,
       <<"{\"messages\":[{\"role\":\"user\",\"content\":\"hi\"}],\"stream\":true}",
         JObj(<<Member("messages", JList(<<UserHi>>)), Member("stream", JBool(TRUE))>>)>>,
       <<"{\"prompt\":\"Say hi\"}",
         JObj(<<Member("prompt", JStr("Say hi"))>>)>>,
       <<"{\"prompt\":\"" \o LongText \o "\"}",
         JObj(<<Member("prompt", JStr(LongText))>>)>>,
       <<"{\"model\":\"m\"}",
         JObj(<<Member("model", JStr("m"))>>)>>,
       <<"{\"messages\":null}",
         JObj(<<Member("messages", JNull)>>)>>,
       <<"{\"messages\":[\"hi\"]}",
         JObj(<<Member("messages", JList(<<JStr("hi")>>))>>)>>,
       <<"{\"messages\":[{\"role\":\"user\",\"content\":[{\"type\":\"text\",\"text\":\"hi\"},{\"type\":\"image_url\"}]}]}",
         JObj(<<Member("messages", JList(<<
            JObj(<<Member("role", JStr("user")),
                   Member("content", JList(<<
                      JObj(<<Member("type", JStr("text")), Member("text", JStr("hi"))>>),
                      JObj(<<Member("type", JStr("image_url"))>>)>>))>>)>>))>>)>>,
       <<"[1]", JList(<<JNum(1)>>)>>,
       <<"\"hello\"", JStr("hello")>>,
       <<"5", JNum(5)>>,
       <<"true", JBool(TRUE)>>,
       <<"null", JNull>>,
       <<"{\"choices\":[{\"message\":{\"content\":\"hello\"}}],\"usage\":{\"prompt_tokens\":3,\"completion_tokens\":2,\"total_tokens\":5}}",
         JObj(<<Member("choices", JList(<<
                   JObj(<<Member("message", JObj(<<Member("content", JStr("hello"))>>))>>)>>)),
                Member("usage", JObj(<<Member("prompt_tokens", JNum(3)),
                                       Member("completion_tokens", JNum(2)),
                                       Member("total_tokens", JNum(5))>>))>>)>>,
       <<"{\"choices\":[]}",
         JObj(<<Member("choices", JList(<<>>))>>)>>,
       <<"{\"choices\":[{\"text\":\"hi\"}]}",
         JObj(<<Member("choices", JList(<<JObj(<<Member("text", JStr("hi"))>>)>>))>>)>>,
       <<"{\"choices\":[5]}",
         JObj(<<Member("choices", JList(<<JNum(5)>>))>>)>>,
       <<"{\"choices\":[{\"message\":\"oops\"}]}",
         JObj(<<Member("choices",
                       JList(<<JObj(<<Member("message", JStr("oops"))>>)>>))>>)>>,
       <<"{\"usage\":{\"prompt_tokens\":null,\"completion_tokens\":5,\"total_tokens\":5}}",
         JObj(<<Member("usage", JObj(<<Member("prompt_tokens", JNull),
                                       Member("completion_tokens", JNum(5)),
                                       Member("total_tokens", JNum(5))>>))>>)>>,
       <<"{\"usage\":5}",
         JObj(<<Member("usage", JNum(5))>>)>> >>

\* json.loads(text) / request.json() / resp.json(): the value, or an exception.
json_loads(text) ==
    IF \E i \in 1..Len(JsonDocs) : JsonDocs[i][1] = text
    THEN Ok(JsonDocs[CHOOSE i \in 1..Len(JsonDocs) : JsonDocs[i][1] = text][2])
    ELSE Raise

(***************************************************************************)
(* The bytes of an upstream stream, as a sequence of atoms.  A chunk       *)
(* boundary may fall between any two atoms.                                *)
(*   data    the text `data: `                                             *)
(*   open    the text `{"choices":[`                                       *)
(*   choice  one entry `{"delta":{"content":"<c>"}}` of the list           *)
(*   close   the text `]}`                                                 *)
(*   nl      the blank line "\n\n" that ends a frame                       *)
(*   done    the text `[DONE]`                                             *)
(*   raw     some other text <c>                                           *)
(*   bad     a byte that is no valid UTF-8                                 *)
(* decoding and stripping give two more: ufffd (U+FFFD) and data: (the     *)
(* text `data:`, whose trailing space strip() took away).                  *)
(***************************************************************************)
Atom(k, c) == [k |-> k, c |-> c]
DataAtom == Atom("data", "")
OpenAtom == Atom("open", "")
ChoiceAtom(c) == Atom("choice", c)
CloseAtom == Atom("close", "")
NlAtom == Atom("nl", "")
DoneAtom == Atom("done", "")

\* chunk.decode("utf-8", errors="replace"): never raises, an undecodable
\* byte becomes U+FFFD.
Decode(chunk) ==
    [i \in 1..Len(chunk) |-> IF chunk[i].k = "bad" THEN Atom("ufffd", "") ELSE chunk[i]]

\* line.strip(): white space is taken from both ends.
RECURSIVE LStrip(_)
LStrip(line) ==
    IF line # <<>> /\ Head(line).k = "nl" THEN LStrip(Tail(line)) ELSE line

RECURSIVE RStrip(_)
RStrip(line) ==
    IF line = <<>> THEN line
    ELSE LET last == line[Len(line)]
             init == SubSeq(line, 1, Len(line) - 1)
         IN  IF last.k = "nl" THEN RStrip(init)
             ELSE IF last.k = "data" THEN init \o <<Atom("data:", "")>>
             ELSE line

Strip(line) == RStrip(LStrip(line))

\* line.strip().startswith("data: ")
StartsWithData(line) == Strip(line) # <<>> /\ Strip(line)[1].k = "data"

\* "[DONE]" in line: the marker, or a content text that holds it.
ContainsDone(line) ==
    \E i \in 1..Len(line) :
        \/ line[i].k = "done"
        \/ line[i].k \in {"choice", "raw"} /\ StrContains(line[i].c, "[DONE]")

\* line.split("data: ", 1)[1]: what follows the first `data: ` of the line.
AfterFirstData(line) ==
    LET first == CHOOSE i \in 1..Len(line) :
                    line[i].k = "data" /\ \A j \in 1..(i - 1) : line[j].k # "data"
    IN  SubSeq(line, first + 1, Len(line))

\* json.loads(payload) of a frame's payload: one complete object, nothing
\* before or after it; anything else is a JSONDecodeError.
sse_json_loads(payload) ==
    IF /\ Len(payload) >= 2
       /\ payload[1].k = "open"
       /\ payload[Len(payload)].k = "close"
       /\ \A i \in 2..(Len(payload) - 1) : payload[i].k = "choice"
    THEN Ok(JObj(<<Member("choices",
                JList([i \in 1..(Len(payload) - 2) |->
                    JObj(<<Member("delta",
                        JObj(<<Member("content", JStr(payload[i + 1].c))>>))>>)]))>>))
    ELSE Raise

\* The loop over data["choices"]: the contents appended before the loop ends
\* or an exception leaves it.
RECURSIVE DeltaLoop(_)
DeltaLoop(choices) ==
    IF choices = <<>> THEN <<>>
    ELSE LET choice == Head(choices) IN
         IF choice.t # "obj" THEN <<>>                        \* choice.get
         ELSE LET d == Get(choice, "delta")
                  delta == IF Truthy(d) THEN d ELSE JObj(<<>>)
                  has == In("content", delta)
              IN  IF has.raised THEN <<>>
                  ELSE IF ~has.v THEN DeltaLoop(Tail(choices))
                  ELSE IF delta.t # "obj" THEN <<>>           \* delta["content"]
                  ELSE IF Truthy(Get(delta, "content"))
                       THEN <<Get(delta, "content")>> \o DeltaLoop(Tail(choices))
                       ELSE DeltaLoop(Tail(choices))

\* The try block of stream(): what one chunk appends to full_content.  An
\* exception anywhere in it is swallowed, keeping what was appended before.
ChunkFragments(chunk) ==
    LET line == Decode(chunk) IN
    IF StartsWithData(line) /\ ~ContainsDone(line)
    THEN LET payload == Strip(AfterFirstData(line))
             data == sse_json_loads(payload)
         IN  IF data.raised \/ data.v.t # "obj" THEN <<>>
             ELSE LET c == Get(data.v, "choices")
                      it == Iter(IF Truthy(c) THEN c ELSE JList(<<>>))
                  IN  IF it.raised THEN <<>> ELSE DeltaLoop(it.v)
    ELSE <<>>

(***************************************************************************)
(* Configuration and the requests the proxy is sent.                       *)
(***************************************************************************)
\* os.getenv("VLLM_BASE_URL", "http://localhost:5678").rstrip("/")
VLLM_BASE_URL == "http://localhost:5678"

\* The methods of the catch-all route.
ProxyMethods == {"GET", "POST", "PUT", "DELETE", "PATCH", "OPTIONS"}
BodyMethods == {"POST", "PUT", "PATCH"}

\* Request paths as the catch-all route binds them (no leading slash):
\* the health path, an API path and a blank one.
Paths == {"health", "v1/chat/completions", " "}

\* path.strip() is empty.
IsBlank(p) == p \in {"", " "}

\* Query strings: none, or one parameter.
Queries == {"", "limit=5"}

\* Header mappings are sets of <<name, value>> with lower-case names.
HeaderGet(hs, name) == {h[2] : h \in {x \in hs : x[1] = name}}
HostHeader == <<"host", "proxy.local:8000">>
AcceptChoices ==
    { {}, {<<"accept", "text/event-stream">>}, {<<"accept", "application/json">>} }

\* Raw request bodies: no JSON, JSON objects of several shapes, and one JSON
\* value of every other type.
RequestBodies ==
    { "not json",
      "{\"messages\":[{\"role\":\"user\",\"content\":\"hi\"}],\"stream\":false}",
      "{\"messages\":[{\"role\":\"user\",\"content\":\"hi\"}],\"stream\":true}",
      "{\"prompt\":\"Say hi\"}",
      "{\"prompt\":\"" \o LongText \o "\"}",
      "{\"model\":\"m\"}",
      "{\"messages\":null}",
      "{\"messages\":[\"hi\"]}",
      "{\"messages\":[{\"role\":\"user\",\"content\":[{\"type\":\"text\",\"text\":\"hi\"},{\"type\":\"image_url\"}]}]}",
      "[1]", "\"hello\"", "5", "true", "null" }

\* A request without a body method carries no body.
Requests ==
    { r \in [method : ProxyMethods, path : Paths, query : Queries,
             headers : {{HostHeader} \cup a : a \in AcceptChoices},
             raw : RequestBodies \cup {""}] :
        (r.method \in BodyMethods) <=> (r.raw # "") }

\* Optional bytes: Python's None, or a byte string.
NoBytes == [some |-> FALSE, bytes |-> ""]
Bytes(b) == [some |-> TRUE, bytes |-> b]

(***************************************************************************)
(* What the upstream may answer.                                           *)
(***************************************************************************)
Failures == {"connect", "timeout", "reset"}

UpstreamStatuses == {200, 404}
UpstreamHeaderSets ==
    { {<<"content-type", "application/json">>, <<"server", "uvicorn">>},
      {<<"server", "uvicorn">>} }
UpstreamBodies ==
    { "", "not json", "[1]",
      "{\"choices\":[{\"message\":{\"content\":\"hello\"}}],\"usage\":{\"prompt_tokens\":3,\"completion_tokens\":2,\"total_tokens\":5}}",
      "{\"choices\":[]}",
      "{\"choices\":[{\"text\":\"hi\"}]}",
      "{\"choices\":[5]}",
      "{\"choices\":[{\"message\":\"oops\"}]}",
      "{\"usage\":{\"prompt_tokens\":null,\"completion_tokens\":5,\"total_tokens\":5}}",
      "{\"usage\":5}" }

\* The delta contents of the i-th frame of an SSE stream.
FrameContents == << <<"Hel">>, <<"lo">>, <<"", "!">> >>
FrameAt(i) == FrameContents[((i - 1) % Len(FrameContents)) + 1]

\* One frame `data: {"choices":[...]}` and its blank line.
Frame(cs) ==
    <<DataAtom, OpenAtom>> \o [i \in 1..Len(cs) |-> ChoiceAtom(cs[i])]
        \o <<CloseAtom, NlAtom>>
DoneFrame == <<DataAtom, DoneAtom, NlAtom>>

RECURSIVE Frames(_)
Frames(n) == IF n = 0 THEN <<>> ELSE Frames(n - 1) \o Frame(FrameAt(n))

\* An SSE stream of n frames and the terminal marker.
SseStream(n) == Frames(n) \o DoneFrame

\* An upstream error body that is no SSE and no valid UTF-8 throughout.
ErrorStream == <<Atom("raw", "upstream error"), Atom("bad", "")>>

StreamAnswers ==
    {[status_code |-> 200, stream |-> SseStream(n)] : n \in 0..MaxFrames}
        \cup {[status_code |-> 500, stream |-> ErrorStream]}

(***************************************************************************)
(* The state of one request.                                               *)
(***************************************************************************)
VARIABLES
    pc,            \* where the request is
    req,           \* the inbound request
    handler,       \* the route function the request was dispatched to
    body,          \* proxy's `body`: the decoded JSON body, or None
    fwd,           \* proxy's `headers` and `raw_body`
    mode,          \* "streaming" or "buffered" once decided
    up,            \* the upstream call: what was sent, whether it is open
    resp,          \* the upstream response (status, headers, buffered body)
    upRest,        \* streaming: bytes the upstream has yet to send
    chunk,         \* streaming: the chunk in hand
    received,      \* streaming: bytes read from upstream so far
    delivered,     \* streaming: bytes handed to the caller so far
    full_content,  \* streaming: the accumulator of delta contents
    logs,          \* the INFO lines logged, in order
    out,           \* the response as the caller sees it
    tasks          \* two requests in flight at once: each one's stream state

vars == <<pc, req, handler, body, fwd, mode, up, resp, upRest, chunk,
          received, delivered, full_content, logs, out, tasks>>

\* No second request is followed.
NoTasks == <<>>

NoRequest == [method |-> "", path |-> "", query |-> "", headers |-> {}, raw |-> ""]
NoForward == [headers |-> {}, raw_body |-> NoBytes]
NoCall == [calls |-> 0, method |-> "", url |-> "", headers |-> {},
           content |-> NoBytes, open |-> FALSE, failure |-> ""]
NoResponse == [status_code |-> 0, headers |-> {}, content |-> ""]
NoOutput == [status |-> 0, headers |-> {}, media_type |-> {}, content |-> ""]

\* What the server answers when a route function raises.
InternalServerError ==
    [status |-> 500, headers |-> {}, media_type |-> {"text/plain"},
     content |-> "Internal Server Error"]

Init ==
    /\ pc = "idle"
    /\ req = NoRequest
    /\ handler = "none"
    /\ body = None
    /\ fwd = NoForward
    /\ mode = "none"
    /\ up = NoCall
    /\ resp = NoResponse
    /\ upRest = <<>>
    /\ chunk = <<>>
    /\ received = <<>>
    /\ delivered = <<>>
    /\ full_content = <<>>
    /\ logs = <<>>
    /\ out = NoOutput
    /\ tasks = NoTasks

\* A request arrives.
Receive ==
    /\ pc = "idle"
    /\ \E r \in Requests : req' = r
    /\ pc' = "dispatch"
    /\ UNCHANGED <<tasks, handler, body, fwd, mode, up, resp, upRest, chunk, received,
                   delivered, full_content, logs, out>>

(***************************************************************************)
(* Routing.  The routes in the order the module registers them; a request  *)
(* goes to the first route whose path and method both match.               *)
(***************************************************************************)
Routes ==
    << [name |-> "proxy", path |-> "/{path:path}", methods |-> ProxyMethods],
       [name |-> "health", path |-> "/health", methods |-> {"GET"}] >>

RouteMatches(route, method, p) ==
    /\ route.path = "/{path:path}" \/ route.path = "/" \o p
    /\ method \in route.methods

RouteFor(method, p) ==
    IF \E i \in 1..Len(Routes) : RouteMatches(Routes[i], method, p)
    THEN Routes[CHOOSE i \in 1..Len(Routes) :
                    /\ RouteMatches(Routes[i], method, p)
                    /\ \A j \in 1..(i - 1) : ~RouteMatches(Routes[j], method, p)].name
    ELSE "none"

\* health(): the body of the health check.
health ==
    JObj(<<Member("status", JStr("ok")), Member("vllm_base_url", JStr(VLLM_BASE_URL))>>)

Dispatch ==
    /\ pc = "dispatch"
    /\ handler' = RouteFor(req.method, req.path)
    /\ IF handler' = "proxy"
       THEN pc' = "parse" /\ out' = out
       ELSE IF handler' = "health"
       THEN /\ pc' = "done"
            /\ out' = [status |-> 200, headers |-> {},
                       media_type |-> {"application/json"}, content |-> Dumps(health)]
       ELSE /\ pc' = "done"
            /\ out' = [status |-> 404, headers |-> {}, media_type |-> {"application/json"},
                       content |-> "{\"detail\":\"Not Found\"}"]
    /\ UNCHANGED <<tasks, req, body, fwd, mode, up, resp, upRest, chunk, received,
                   delivered, full_content, logs>>

(***************************************************************************)
(* proxy(path, request)                                                    *)
(***************************************************************************)
\* url = f"{VLLM_BASE_URL}/{path}"
url(p) == VLLM_BASE_URL \o "/" \o p

\* body = await request.json() for a body method and a non-blank path.
ParseBody ==
    /\ pc = "parse"
    /\ body' = IF req.method \in BodyMethods /\ ~IsBlank(req.path)
               THEN LET parsed == json_loads(req.raw)
                    IN  IF parsed.raised THEN None ELSE parsed.v
               ELSE None
    /\ pc' = "prompt"
    /\ UNCHANGED <<tasks, req, handler, fwd, mode, up, resp, upRest, chunk, received,
                   delivered, full_content, logs, out>>

\* if body and ("messages" in body or "prompt" in body): whether the prompt
\* is extracted, or the test itself raises.
PromptTest(b) ==
    IF ~Truthy(b) THEN Ok(FALSE)
    ELSE LET inM == In("messages", b) IN
         IF inM.raised THEN Raise
         ELSE IF inM.v THEN Ok(TRUE)
         ELSE In("prompt", b)

\* The route function raises: the request ends with a server error.
Crash ==
    /\ pc' = "failed"
    /\ out' = InternalServerError

\* The request prompt is extracted and logged.
LogPrompt ==
    /\ pc = "prompt"
    /\ LET test == PromptTest(body) IN
       IF test.raised THEN Crash /\ logs' = logs
       ELSE IF ~test.v THEN pc' = "forward" /\ logs' = logs /\ out' = out
       ELSE LET req_prompt == extract_prompt_from_body(body) IN
            IF req_prompt.raised THEN Crash /\ logs' = logs
            ELSE /\ logs' = Append(logs, [kind |-> "prompt", text |-> req_prompt.v])
                 /\ pc' = "forward"
                 /\ out' = out
    /\ UNCHANGED <<tasks, req, handler, body, fwd, mode, up, resp, upRest, chunk,
                   received, delivered, full_content>>

\* A faulty variant of BuildForward: the decoded body is serialised again and
\* sent in place of the raw bytes.
BuildForward_reserialized ==
    /\ pc = "forward"
    /\ fwd' = [headers |-> {h \in req.headers : h[1] # "host"},
               raw_body |-> IF req.method \in BodyMethods THEN Bytes(Dumps(body))
                            ELSE NoBytes]
    /\ pc' = "mode"
    /\ UNCHANGED <<tasks, req, handler, body, mode, up, resp, upRest, chunk, received,
                   delivered, full_content, logs, out>>

\* headers without host; raw_body for a body method.
BuildForward ==
    /\ pc = "forward"
    /\ fwd' = [headers |-> {h \in req.headers : h[1] # "host"},
               raw_body |-> IF req.method \in BodyMethods THEN Bytes(req.raw)
                            ELSE NoBytes]
    /\ pc' = "mode"
    /\ UNCHANGED <<tasks, req, handler, body, mode, up, resp, upRest, chunk, received,
                   delivered, full_content, logs, out>>

\* accept == "text/event-stream" or (body and body.get("stream")): TRUE for
\* streaming, or the test raises.
StreamTest(headers, b) ==
    IF HeaderGet(headers, "accept") = {"text/event-stream"} THEN Ok(TRUE)
    ELSE IF ~Truthy(b) THEN Ok(FALSE)
    ELSE IF b.t # "obj" THEN Raise                \* body.get: AttributeError
    ELSE Ok(Truthy(Get(b, "stream")))

\* The StreamingResponse proxy returns: its status and headers are fixed
\* here, before stream() has run a single step.
StreamingResponse ==
    [status |-> 200,
     headers |-> {<<"cache-control", "no-cache">>, <<"connection", "keep-alive">>},
     media_type |-> {"text/event-stream"}, content |-> ""]

ModeDecision ==
    /\ pc = "mode"
    /\ LET test == StreamTest(req.headers, body) IN
       IF test.raised THEN Crash /\ mode' = mode
       ELSE IF test.v
       THEN mode' = "streaming" /\ pc' = "s_open" /\ out' = StreamingResponse
       ELSE mode' = "buffered" /\ pc' = "b_request" /\ out' = out
    /\ UNCHANGED <<tasks, req, handler, body, fwd, up, resp, upRest, chunk, received,
                   delivered, full_content, logs>>

\* The upstream call as it is sent.
Sent(open, failure) ==
    [calls |-> up.calls + 1, method |-> req.method, url |-> url(req.path),
     headers |-> fwd.headers, content |-> fwd.raw_body,
     open |-> open, failure |-> failure]

(***************************************************************************)
(* Streaming: stream(), the generator the StreamingResponse iterates.      *)
(***************************************************************************)
\* A faulty variant of StreamOpen: the status and headers of the caller's
\* response are taken from the upstream response head.
StreamOpen_forwardsStatus ==
    /\ pc = "s_open"
    /\ \/ \E f \in {"connect", "timeout"} :
            /\ up' = Sent(FALSE, f)
            /\ pc' = "aborted"
            /\ UNCHANGED <<resp, upRest, out>>
       \/ \E a \in StreamAnswers :
            /\ up' = Sent(TRUE, "")
            /\ resp' = [status_code |-> a.status_code,
                        headers |-> {<<"server", "uvicorn">>}, content |-> ""]
            /\ out' = [out EXCEPT !.status = a.status_code,
                                  !.headers = {<<"server", "uvicorn">>}]
            /\ upRest' = a.stream
            /\ pc' = "s_next"
    /\ UNCHANGED <<tasks, req, handler, body, fwd, mode, chunk, received, delivered,
                   full_content, logs>>

\* client.stream(method, url, content=raw_body, headers=headers) is entered:
\* the connection opens and the response head arrives, or the call fails.
StreamOpen ==
    /\ pc = "s_open"
    /\ \/ \E f \in {"connect", "timeout"} :
            /\ up' = Sent(FALSE, f)
            /\ pc' = "aborted"
            /\ UNCHANGED <<resp, upRest>>
       \/ \E a \in StreamAnswers :
            /\ up' = Sent(TRUE, "")
            /\ resp' = [status_code |-> a.status_code,
                        headers |-> {<<"server", "uvicorn">>}, content |-> ""]
            /\ upRest' = a.stream
            /\ pc' = "s_next"
    /\ UNCHANGED <<tasks, req, handler, body, fwd, mode, chunk, received, delivered,
                   full_content, logs, out>>

\* A faulty variant of StreamNext: a failed read ends the loop as if the
\* stream were over, so the text gathered so far is logged.
StreamNext_logsPartial ==
    /\ pc = "s_next"
    /\ \/ /\ upRest # <<>>
          /\ \E k \in 1..Len(upRest) :
                /\ chunk' = SubSeq(upRest, 1, k)
                /\ upRest' = SubSeq(upRest, k + 1, Len(upRest))
                /\ received' = received \o SubSeq(upRest, 1, k)
          /\ pc' = "s_yield"
          /\ up' = up
       \/ /\ upRest # <<>>
          /\ \E f \in {"reset", "timeout"} :
                up' = [up EXCEPT !.open = FALSE, !.failure = f]
          /\ pc' = "s_log"
          /\ UNCHANGED <<chunk, upRest, received>>
       \/ /\ upRest = <<>>
          /\ up' = [up EXCEPT !.open = FALSE]
          /\ pc' = "s_log"
          /\ UNCHANGED <<chunk, upRest, received>>
    /\ UNCHANGED <<tasks, req, handler, body, fwd, mode, resp, delivered, full_content,
                   logs, out>>

\* A faulty variant of StreamNext: the response is not used as a context
\* manager, so a failed read leaves the connection open.
StreamNext_leaksOnFailure ==
    /\ pc = "s_next"
    /\ \/ /\ upRest # <<>>
          /\ \E k \in 1..Len(upRest) :
                /\ chunk' = SubSeq(upRest, 1, k)
                /\ upRest' = SubSeq(upRest, k + 1, Len(upRest))
                /\ received' = received \o SubSeq(upRest, 1, k)
          /\ pc' = "s_yield"
          /\ up' = up
       \/ /\ upRest # <<>>
          /\ \E f \in {"reset", "timeout"} :
                up' = [up EXCEPT !.failure = f]
          /\ pc' = "aborted"
          /\ UNCHANGED <<chunk, upRest, received>>
       \/ /\ upRest = <<>>
          /\ up' = [up EXCEPT !.open = FALSE]
          /\ pc' = "s_log"
          /\ UNCHANGED <<chunk, upRest, received>>
    /\ UNCHANGED <<tasks, req, handler, body, fwd, mode, resp, delivered, full_content,
                   logs, out>>

\* async for chunk in r.aiter_bytes(): the next chunk (the upstream cuts the
\* stream where it likes), the end of the stream, or a failure of the read.
StreamNext ==
    /\ pc = "s_next"
    /\ \/ /\ upRest # <<>>
          /\ \E k \in 1..Len(upRest) :
                /\ chunk' = SubSeq(upRest, 1, k)
                /\ upRest' = SubSeq(upRest, k + 1, Len(upRest))
                /\ received' = received \o SubSeq(upRest, 1, k)
          /\ pc' = "s_yield"
          /\ up' = up
       \/ /\ upRest # <<>>
          /\ \E f \in {"reset", "timeout"} :
                up' = [up EXCEPT !.open = FALSE, !.failure = f]
          /\ pc' = "aborted"
          /\ UNCHANGED <<chunk, upRest, received>>
       \/ /\ upRest = <<>>
          /\ up' = [up EXCEPT !.open = FALSE]
          /\ pc' = "s_log"
          /\ UNCHANGED <<chunk, upRest, received>>
    /\ UNCHANGED <<tasks, req, handler, body, fwd, mode, resp, delivered, full_content,
                   logs, out>>

\* A faulty variant of StreamYield: the chunk is inspected first and handed
\* on only when the extractor found text in it.
StreamYield_dropsUnparsed ==
    /\ pc = "s_yield"
    /\ delivered' = IF ChunkFragments(chunk) = <<>> THEN delivered
                    ELSE delivered \o chunk
    /\ pc' = "s_extract"
    /\ UNCHANGED <<tasks, req, handler, body, fwd, mode, up, resp, upRest, chunk,
                   received, full_content, logs, out>>

\* yield chunk
StreamYield ==
    /\ pc = "s_yield"
    /\ delivered' = delivered \o chunk
    /\ pc' = "s_extract"
    /\ UNCHANGED <<tasks, req, handler, body, fwd, mode, up, resp, upRest, chunk,
                   received, full_content, logs, out>>

\* A faulty variant of StreamExtract: every fragment is logged as soon as it
\* is found, while the stream is still being relayed.
StreamExtract_logsEachFragment ==
    /\ pc = "s_extract"
    /\ full_content' = full_content \o ChunkFragments(chunk)
    /\ logs' = logs \o [i \in 1..Len(ChunkFragments(chunk)) |->
                            [kind |-> "stream", text |-> PyStr(ChunkFragments(chunk)[i])]]
    /\ chunk' = <<>>
    /\ pc' = "s_next"
    /\ UNCHANGED <<tasks, req, handler, body, fwd, mode, up, resp, upRest, received,
                   delivered, out>>

\* The try block after the yield.
StreamExtract ==
    /\ pc = "s_extract"
    /\ full_content' = full_content \o ChunkFragments(chunk)
    /\ chunk' = <<>>
    /\ pc' = "s_next"
    /\ UNCHANGED <<tasks, req, handler, body, fwd, mode, up, resp, upRest, received,
                   delivered, logs, out>>

\* The caller goes away during the relay.  The task that iterates stream() is
\* cancelled and the generator is closed where it is suspended (waiting for
\* the next chunk, or at the yield): the exception passes through both
\* `async with` blocks, which close the upstream response and the client, and
\* the lines after them are not reached.
CallerDisconnect ==
    /\ pc \in {"s_next", "s_yield"}
    /\ up' = [up EXCEPT !.open = FALSE]
    /\ pc' = "cancelled"
    /\ UNCHANGED <<tasks, req, handler, body, fwd, mode, resp, upRest, chunk, received,
                   delivered, full_content, logs, out>>

\* if full_content: logger.info(..., "".join(full_content))
StreamLog ==
    /\ pc = "s_log"
    /\ IF full_content = <<>> THEN pc' = "done" /\ logs' = logs
       ELSE IF \E i \in 1..Len(full_content) : full_content[i].t # "str"
       THEN pc' = "aborted" /\ logs' = logs       \* "".join of a non-str
       ELSE /\ logs' = Append(logs,
                [kind |-> "stream",
                 text |-> Join([i \in 1..Len(full_content) |-> full_content[i].s], "")])
            /\ pc' = "done"
    /\ UNCHANGED <<tasks, req, handler, body, fwd, mode, up, resp, upRest, chunk,
                   received, delivered, full_content, out>>

(***************************************************************************)
(* Buffered.                                                               *)
(***************************************************************************)
\* resp = await client.request(method, url, content=raw_body, headers=headers)
BufferedRequest ==
    /\ pc = "b_request"
    /\ \/ \E f \in Failures :
            /\ up' = Sent(FALSE, f)
            /\ Crash
            /\ resp' = resp
       \/ \E st \in UpstreamStatuses, hs \in UpstreamHeaderSets, b \in UpstreamBodies :
            /\ up' = Sent(FALSE, "")
            /\ resp' = [status_code |-> st, headers |-> hs, content |-> b]
            /\ pc' = "b_log"
            /\ out' = out
    /\ UNCHANGED <<tasks, req, handler, body, fwd, mode, upRest, chunk, received,
                   delivered, full_content, logs>>

\* The lines the try block of the buffered branch logs before it ends or an
\* exception leaves it.
ResponseLogLines(r) ==
    LET data == json_loads(r.content) IN
    IF data.raised THEN <<>>
    ELSE LET usage == extract_usage_from_response(data.v) IN
         IF usage.raised THEN <<>>
         ELSE LET usageLine ==
                    [kind |-> "usage",
                     text |-> "prompt_tokens=" \o PyStr(usage.v.prompt_tokens)
                              \o " completion_tokens=" \o PyStr(usage.v.completion_tokens)
                              \o " total_tokens=" \o PyStr(usage.v.total_tokens)]
                  response_text == extract_response_text(data.v)
              IN  IF response_text.raised THEN <<usageLine>>
                  ELSE <<usageLine, [kind |-> "text", text |-> PyStr(response_text.v)]>>

\* A faulty variant of BufferedLog: the extraction runs whatever the status
\* of the response.
BufferedLog_anyStatus ==
    /\ pc = "b_log"
    /\ logs' = IF resp.content # ""
               THEN logs \o ResponseLogLines(resp)
               ELSE logs
    /\ pc' = "b_return"
    /\ UNCHANGED <<tasks, req, handler, body, fwd, mode, up, resp, upRest, chunk,
                   received, delivered, full_content, out>>

\* if resp.status_code == 200 and resp.content: try ... except Exception
BufferedLog ==
    /\ pc = "b_log"
    /\ logs' = IF resp.status_code = 200 /\ resp.content # ""
               THEN logs \o ResponseLogLines(resp)
               ELSE logs
    /\ pc' = "b_return"
    /\ UNCHANGED <<tasks, req, handler, body, fwd, mode, up, resp, upRest, chunk,
                   received, delivered, full_content, out>>

\* A faulty variant of BufferedReturn: a body that decoded as JSON is
\* serialised again for the caller.
BufferedReturn_reencoded ==
    /\ pc = "b_return"
    /\ out' = [status |-> resp.status_code, headers |-> resp.headers,
               media_type |-> HeaderGet(resp.headers, "content-type"),
               content |-> IF json_loads(resp.content).raised THEN resp.content
                           ELSE Dumps(json_loads(resp.content).v)]
    /\ pc' = "done"
    /\ UNCHANGED <<tasks, req, handler, body, fwd, mode, up, resp, upRest, chunk,
                   received, delivered, full_content, logs>>

\* return Response(content, status_code, headers, media_type)
BufferedReturn ==
    /\ pc = "b_return"
    /\ out' = [status |-> resp.status_code, headers |-> resp.headers,
               media_type |-> HeaderGet(resp.headers, "content-type"),
               content |-> resp.content]
    /\ pc' = "done"
    /\ UNCHANGED <<tasks, req, handler, body, fwd, mode, up, resp, upRest, chunk,
                   received, delivered, full_content, logs>>

Next ==
    \/ Receive
    \/ Dispatch
    \/ ParseBody
    \/ LogPrompt
    \/ BuildForward
    \/ ModeDecision
    \/ StreamOpen
    \/ StreamNext
    \/ StreamYield
    \/ StreamExtract
    \/ CallerDisconnect
    \/ StreamLog
    \/ BufferedRequest
    \/ BufferedLog
    \/ BufferedReturn

Spec == Init /\ [][Next]_vars

(***************************************************************************)
(* The prompt step alone, over parsed bodies of more shapes than the       *)
(* request bodies above: objects with any combination of a messages        *)
(* member, a prompt member and two further members.                        *)
(***************************************************************************)
MessagesChoices ==
    { <<>>,
      <<Member("messages", JList(<<UserHi>>))>>,
      <<Member("messages", JList(<<>>))>>,
      <<Member("messages", JNull)>> }
PromptChoices ==
    { <<>>,
      <<Member("prompt", JStr("Say hi"))>>,
      <<Member("prompt", JStr(""))>>,
      <<Member("prompt", JStr(LongText))>>,
      <<Member("prompt", JList(<<JStr("a"), JStr("b")>>))>>,
      <<Member("prompt", JNum(5))>>,
      <<Member("prompt", JNull)>> }
ModelChoices == { <<>>, <<Member("model", JStr("m"))>> }
StreamChoices == { <<>>, <<Member("stream", JBool(TRUE))>> }
PromptBodies ==
    { JObj(x \o m \o p \o st) :
        x \in ModelChoices, m \in MessagesChoices, p \in PromptChoices,
        st \in StreamChoices }

\* A POST request whose body has been parsed to one of PromptBodies.
InitPrompt ==
    /\ pc = "prompt"
    /\ body \in PromptBodies
    /\ req = [method |-> "POST", path |-> "v1/chat/completions", query |-> "",
              headers |-> {HostHeader}, raw |-> Dumps(body)]
    /\ handler = "proxy"
    /\ fwd = NoForward
    /\ mode = "none"
    /\ up = NoCall
    /\ resp = NoResponse
    /\ upRest = <<>>
    /\ chunk = <<>>
    /\ received = <<>>
    /\ delivered = <<>>
    /\ full_content = <<>>
    /\ logs = <<>>
    /\ out = NoOutput
    /\ tasks = NoTasks

SpecPrompt == InitPrompt /\ [][LogPrompt]_vars

(***************************************************************************)
(* The try block of stream() alone, over chunks that are one SSE line      *)
(* each: a data line with up to two choices, with or without the blank     *)
(* line after it, the terminal marker, a line that is no data line, and    *)
(* data lines whose payload does not parse.                                *)
(***************************************************************************)
ExtractContents == {"", "Hel", "[DONE]", "data: "}
ChoiceLists ==
    {<<>>} \cup {<<c>> : c \in ExtractContents}
           \cup {<<c, d>> : c \in ExtractContents, d \in ExtractContents}

\* The line `data: {"choices":[...]}` with one choice per content of cs.
DataLine(cs) ==
    <<DataAtom, OpenAtom>> \o [i \in 1..Len(cs) |-> ChoiceAtom(cs[i])] \o <<CloseAtom>>

LineChunks ==
    {DataLine(cs) \o e : cs \in ChoiceLists, e \in {<<>>, <<NlAtom>>}}
        \cup { DoneFrame,
               <<Atom("raw", ": keep-alive"), NlAtom>>,
               <<DataAtom, Atom("raw", "not json"), NlAtom>>,
               <<DataAtom, OpenAtom, ChoiceAtom("Hel")>>,
               <<DataAtom, OpenAtom, ChoiceAtom("Hel"), CloseAtom, Atom("bad", "")>> }

\* The chunks relayed before the one at hand: none, or one frame.
EarlierChunks == {<<>>, Frame(<<"x">>)}

\* A GET request in streaming mode whose chunk has just been handed to the
\* caller.
InitExtract ==
    /\ pc = "s_extract"
    /\ req = [method |-> "GET", path |-> "v1/chat/completions", query |-> "",
              headers |-> {HostHeader, <<"accept", "text/event-stream">>}, raw |-> ""]
    /\ handler = "proxy"
    /\ body = None
    /\ fwd = [headers |-> {<<"accept", "text/event-stream">>}, raw_body |-> NoBytes]
    /\ mode = "streaming"
    /\ up = [calls |-> 1, method |-> "GET", url |-> url("v1/chat/completions"),
             headers |-> {<<"accept", "text/event-stream">>}, content |-> NoBytes,
             open |-> TRUE, failure |-> ""]
    /\ resp = [status_code |-> 200, headers |-> {<<"server", "uvicorn">>},
               content |-> ""]
    /\ upRest = DoneFrame
    /\ chunk \in LineChunks
    /\ \E earlier \in EarlierChunks :
          /\ received = earlier \o chunk
          /\ delivered = earlier \o chunk
          /\ full_content = ChunkFragments(earlier)
    /\ logs = <<>>
    /\ out = StreamingResponse
    /\ tasks = NoTasks

SpecExtract == InitExtract /\ [][StreamExtract]_vars

(***************************************************************************)
(* Two streaming requests in flight at once.  Each call of proxy() makes   *)
(* its own full_content list, and each run of stream() its own client,     *)
(* upstream response and chunk; the logger is the one thing both write to. *)
(* tasks[t] holds the stream state of request t, logs the logger's lines.  *)
(* The steps are those of stream() above, taken by either request in any   *)
(* order.                                                                  *)
(***************************************************************************)
\* Frames each of the two upstream streams carries before [DONE].
MaxPairFrames == 1

TaskIds == {1, 2}

\* The delta content of the i-th frame of request t's upstream stream.
TaskContent(t, i) == (IF t = 1 THEN "one" ELSE "two") \o NumStr(i)

RECURSIVE TaskFrames(_, _)
TaskFrames(t, n) ==
    IF n = 0 THEN <<>> ELSE TaskFrames(t, n - 1) \o Frame(<<TaskContent(t, n)>>)

\* What the upstream of request t sends.
TaskStream(t) == TaskFrames(t, MaxPairFrames) \o DoneFrame

\* Both requests have opened their upstream streams.
InitPair ==
    /\ pc = "idle"
    /\ req = NoRequest
    /\ handler = "none"
    /\ body = None
    /\ fwd = NoForward
    /\ mode = "none"
    /\ up = NoCall
    /\ resp = NoResponse
    /\ upRest = <<>>
    /\ chunk = <<>>
    /\ received = <<>>
    /\ delivered = <<>>
    /\ full_content = <<>>
    /\ logs = <<>>
    /\ out = NoOutput
    /\ tasks = [t \in TaskIds |->
                    [pc |-> "s_next", upRest |-> TaskStream(t), chunk |-> <<>>,
                     received |-> <<>>, delivered |-> <<>>, full_content |-> <<>>,
                     open |-> TRUE, failure |-> ""]]

\* The variables of the single request, at rest while the pair runs.
requestVars == <<pc, req, handler, body, fwd, mode, up, resp, upRest, chunk,
                 received, delivered, full_content, out>>

\* async for chunk in r.aiter_bytes(), in request t.
TaskNext(t) ==
    LET me == tasks[t] IN
    /\ me.pc = "s_next"
    /\ \/ /\ me.upRest # <<>>
          /\ \E k \in 1..Len(me.upRest) :
                tasks' = [tasks EXCEPT ![t] =
                    [me EXCEPT !.chunk = SubSeq(me.upRest, 1, k),
                               !.upRest = SubSeq(me.upRest, k + 1, Len(me.upRest)),
                               !.received = me.received \o SubSeq(me.upRest, 1, k),
                               !.pc = "s_yield"]]
       \/ /\ me.upRest # <<>>
          /\ \E f \in {"reset", "timeout"} :
                tasks' = [tasks EXCEPT ![t] =
                    [me EXCEPT !.open = FALSE, !.failure = f, !.pc = "aborted"]]
       \/ /\ me.upRest = <<>>
          /\ tasks' = [tasks EXCEPT ![t] = [me EXCEPT !.open = FALSE, !.pc = "s_log"]]
    /\ UNCHANGED <<requestVars, logs>>

\* yield chunk, in request t.
TaskYield(t) ==
    LET me == tasks[t] IN
    /\ me.pc = "s_yield"
    /\ tasks' = [tasks EXCEPT ![t] =
            [me EXCEPT !.delivered = me.delivered \o me.chunk, !.pc = "s_extract"]]
    /\ UNCHANGED <<requestVars, logs>>

\* A faulty variant of TaskExtract: one accumulator serves every request.
TaskExtract_sharedAccumulator(t) ==
    LET me == tasks[t] IN
    /\ me.pc = "s_extract"
    /\ tasks' = [u \in TaskIds |->
            IF u = t
            THEN [me EXCEPT !.full_content = me.full_content \o ChunkFragments(me.chunk),
                            !.chunk = <<>>, !.pc = "s_next"]
            ELSE [tasks[u] EXCEPT !.full_content =
                                      tasks[u].full_content \o ChunkFragments(me.chunk)]]
    /\ UNCHANGED <<requestVars, logs>>

\* The try block after the yield, in request t.
TaskExtract(t) ==
    LET me == tasks[t] IN
    /\ me.pc = "s_extract"
    /\ tasks' = [tasks EXCEPT ![t] =
            [me EXCEPT !.full_content = me.full_content \o ChunkFragments(me.chunk),
                       !.chunk = <<>>, !.pc = "s_next"]]
    /\ UNCHANGED <<requestVars, logs>>

\* The caller of request t goes away during the relay.
TaskDisconnect(t) ==
    LET me == tasks[t] IN
    /\ me.pc \in {"s_next", "s_yield"}
    /\ tasks' = [tasks EXCEPT ![t] = [me EXCEPT !.open = FALSE, !.pc = "cancelled"]]
    /\ UNCHANGED <<requestVars, logs>>

\* if full_content: logger.info(..., "".join(full_content)), in request t.
TaskLog(t) ==
    LET me == tasks[t] IN
    /\ me.pc = "s_log"
    /\ IF me.full_content = <<>>
       THEN /\ tasks' = [tasks EXCEPT ![t] = [me EXCEPT !.pc = "done"]]
            /\ logs' = logs
       ELSE IF \E i \in 1..Len(me.full_content) : me.full_content[i].t # "str"
       THEN /\ tasks' = [tasks EXCEPT ![t] = [me EXCEPT !.pc = "aborted"]]
            /\ logs' = logs
       ELSE /\ logs' = Append(logs,
                [kind |-> "stream",
                 text |-> Join([i \in 1..Len(me.full_content) |->
                                    me.full_content[i].s], "")])
            /\ tasks' = [tasks EXCEPT ![t] = [me EXCEPT !.pc = "done"]]
    /\ UNCHANGED requestVars

NextPair ==
    \/ \E t \in TaskIds : TaskNext(t)
    \/ \E t \in TaskIds : TaskYield(t)
    \/ \E t \in TaskIds : TaskExtract(t)
    \/ \E t \in TaskIds : TaskDisconnect(t)
    \/ \E t \in TaskIds : TaskLog(t)

SpecPair == InitPair /\ [][NextPair]_vars

(***************************************************************************)
(* Properties.                                                             *)
(***************************************************************************)
\* The request has ended: normally, by an exception of the route function,
\* by an exception inside stream() after the response had begun, or by the
\* caller going away during the relay.
Terminal == {"done", "failed", "aborted", "cancelled"}

LogKinds == {logs[i].kind : i \in 1..Len(logs)}
LogTexts(kind) == {logs[i].text : i \in {j \in 1..Len(logs) : logs[j].kind = kind}}

\* The log lines about the response.
ResponseKinds == {"usage", "text", "stream"}

\* request.headers.get("accept") == "text/event-stream"
AcceptsEventStream == HeaderGet(req.headers, "accept") = {"text/event-stream"}

\* C1: whenever the upstream call has failed at network level (connect
\* failure, timeout, reset), the status the caller receives is a 5xx, in
\* streaming mode as in buffered mode.
C1_UpstreamFailureIs5xx ==
    up.failure # "" => out.status \in 500..599

\* C2: GET /health is never handed to the catch-all proxy handler, makes no
\* upstream call, and ends with the health document.
C2_HealthNeverProxied ==
    (req.method = "GET" /\ req.path = "health") =>
        /\ handler # "proxy"
        /\ up.calls = 0
        /\ pc \in Terminal =>
              out.status = 200 /\ out.content = Dumps(health)

\* C3: in streaming mode the bytes handed to the caller are the bytes read
\* from upstream, in order: a chunk is handed on before the extractor looks
\* at it, and whatever the extractor makes of it, nothing is dropped, so the
\* stream that ends normally has delivered all the upstream sent.
C3_StreamRelayExact ==
    mode = "streaming" =>
        /\ pc = "s_yield" => received = delivered \o chunk
        /\ pc \in {"s_extract", "s_next", "s_log", "done", "aborted"} =>
              delivered = received
        /\ pc \in {"s_log", "done"} =>
              \E a \in StreamAnswers : delivered = a.stream

\* The whole of the longest SSE stream reached the caller although the
\* extractor found no text in any of its chunks.
C3_Witness ==
    /\ mode = "streaming"
    /\ pc = "done"
    /\ delivered = SseStream(MaxFrames)
    /\ full_content = <<>>

\* C4: in buffered mode the response returned has the status, the body, the
\* content-type and the headers of the upstream response, whether or not the
\* extraction on the body succeeded.
C4_BufferedPassThrough ==
    (mode = "buffered" /\ pc = "done") =>
        /\ out.status = resp.status_code
        /\ out.content = resp.content
        /\ out.media_type = HeaderGet(resp.headers, "content-type")
        /\ out.headers = resp.headers

\* A 200 response whose usage was logged and whose text extraction raised
\* has been returned.
C4_Witness ==
    /\ mode = "buffered"
    /\ pc = "done"
    /\ resp.status_code = 200
    /\ resp.content = "{\"choices\":[5]}"
    /\ LogKinds = {"usage"}

\* C5: a request whose body is a JSON object with a `messages` or `prompt`
\* member never fails before the upstream call: prompt extraction returns a
\* string or is skipped.
C5_PromptExtractionNeverFails ==
    (body.t = "obj" /\ (HasKey(body, "messages") \/ HasKey(body, "prompt"))) =>
        ~(pc = "failed" /\ up.calls = 0)

\* C6: a POST/PUT/PATCH request never ends in an error before the upstream
\* call, whatever its body parses to, and the upstream is sent exactly the
\* raw inbound bytes.
C6_ForwardsWhateverTheBody ==
    req.method \in BodyMethods =>
        /\ ~(pc = "failed" /\ up.calls = 0)
        /\ up.calls > 0 => up.content = Bytes(req.raw)

\* C7: for a POST/PUT/PATCH request whose body is no JSON, the decoded body
\* is None, no request-prompt line is logged, the mode depends on the Accept
\* header alone, the request reaches the upstream call, and the raw bytes are
\* what is sent.
C7_UnparseableBodyForwarded ==
    (req.method \in BodyMethods /\ json_loads(req.raw).raised) =>
        /\ body = None
        /\ "prompt" \notin LogKinds
        /\ mode # "none" => (mode = "streaming" <=> AcceptsEventStream)
        /\ pc \in Terminal => up.calls = 1
        /\ up.calls > 0 => up.content = Bytes(req.raw)

\* A body that is no JSON has been sent upstream in buffered mode.
C7_Witness ==
    /\ req.method = "POST"
    /\ req.raw = "not json"
    /\ ~IsBlank(req.path)
    /\ mode = "buffered"
    /\ up.calls = 1
    /\ up.content = Bytes("not json")

\* The upstream URL that keeps the inbound query string.
UrlWithQuery(r) == url(r.path) \o (IF r.query = "" THEN "" ELSE "?" \o r.query)

\* C8: the upstream call targets base_url + "/" + path with the inbound
\* query string attached.
C8_QueryPreserved ==
    up.calls > 0 => up.url = UrlWithQuery(req)

\* C9 as stated: a log line about the response exists only once all bytes
\* of the response have been relayed to the caller, in both modes.
C9_LogsAfterRelay ==
    (LogKinds \cap ResponseKinds # {}) =>
        /\ pc = "done"
        /\ mode = "streaming" => upRest = <<>> /\ delivered = received
        /\ mode = "buffered" => out.status = resp.status_code /\ out.content = resp.content

\* C9 as amended: in streaming mode a log line about the response exists
\* only once the stream has ended and all its bytes have been relayed; in
\* buffered mode it exists only once the complete upstream response has been
\* received, which is before the response is returned to the caller.
C9_LogsAfterStreamOrReceipt ==
    (LogKinds \cap ResponseKinds # {}) =>
        /\ mode = "streaming" =>
              pc = "done" /\ upRest = <<>> /\ delivered = received
        /\ mode = "buffered" =>
              pc \in {"b_return", "done"} /\ resp.status_code = 200 /\ resp.content # ""

\* The streamed text was logged at the end of a stream of MaxFrames frames.
C9_Witness ==
    /\ mode = "streaming"
    /\ pc = "done"
    /\ received = SseStream(MaxFrames)
    /\ "stream" \in LogKinds

\* The non-empty delta contents of the frames of a byte stream, in order.
RECURSIVE DeltaText(_)
DeltaText(stream) ==
    IF stream = <<>> THEN ""
    ELSE (IF Head(stream).k = "choice" THEN Head(stream).c ELSE "")
            \o DeltaText(Tail(stream))

\* C10: for an SSE stream of frames ended by [DONE], however it is cut into
\* chunks, the one line logged at the end of the stream is the concatenation
\* of the delta contents of all its frames.
C10_StreamLogIsAllDeltas ==
    (mode = "streaming" /\ pc = "done" /\ resp.status_code = 200) =>
        LET lines == SelectSeq(logs, LAMBDA l : l.kind = "stream")
        IN  [i \in 1..Len(lines) |-> lines[i].text] =
                IF DeltaText(received) = "" THEN <<>> ELSE <<DeltaText(received)>>

\* a is an initial part of b.
IsPrefix(a, b) == Len(a) <= Len(b) /\ SubSeq(b, 1, Len(a)) = a

\* The response did not complete: the upstream call failed (connect failure,
\* timeout, connection dropped) or the caller went away during the stream.
Incomplete == up.failure # "" \/ pc = "cancelled"

\* C11: once the response of a request has failed to complete, no log line
\* about the response exists, now or later, whatever text the accumulator
\* holds; and no step takes back a byte already relayed to the caller.
C11_NoLogWithoutCompletion ==
    [][ /\ IsPrefix(delivered, delivered')
        /\ Incomplete' => (LogKinds \cap ResponseKinds = {})'
        /\ Incomplete => Incomplete' ]_vars

\* The upstream dropped the connection after some bytes had been relayed and
\* some text had been gathered; nothing about the response is logged.
C11_Witness ==
    /\ pc = "aborted"
    /\ up.failure = "reset"
    /\ delivered # <<>>
    /\ full_content # <<>>
    /\ LogKinds \cap ResponseKinds = {}

\* C12: in streaming mode the upstream connection is open only while the
\* relay is in progress; in every terminal state it is closed, and after the
\* caller has gone away nothing more is read from upstream.
C12_ConnectionClosedAtEnd ==
    /\ up.open => mode = "streaming" /\ pc \in {"s_next", "s_yield", "s_extract"}
    /\ pc \in Terminal \cup {"s_log"} => ~up.open
    /\ pc = "cancelled" => IsPrefix(received, delivered \o chunk)

\* The caller went away in mid-stream: the connection is closed although the
\* upstream had more to send.
C12_Witness ==
    /\ pc = "cancelled"
    /\ ~up.open
    /\ delivered # <<>>
    /\ upRest # <<>>

\* The log lines that carry prompt or response text.
TextKinds == {"prompt", "text", "stream"}

\* C13: a log line that carries prompt or response text holds at most 2000
\* characters of it, followed by an ellipsis marker when the text was longer.
C13_LoggedTextCapped ==
    \A i \in 1..Len(logs) :
        logs[i].kind \in TextKinds => Len(logs[i].text) <= 2000 + Len("...")

\* The mode the request's Accept header and parsed body call for.
ExpectedMode ==
    IF AcceptsEventStream \/ (body.t = "obj" /\ Truthy(Get(body, "stream")))
    THEN "streaming" ELSE "buffered"

\* The positions of a request whose handling is past the mode test.
Decided == {"s_open", "s_next", "s_yield", "s_extract", "s_log", "b_request",
            "b_log", "b_return"} \cup Terminal

\* C14: a request is handled in streaming mode exactly when its Accept
\* header is text/event-stream or its parsed body has a truthy stream field,
\* and in buffered mode otherwise; the mode is set before the upstream call
\* and one upstream call is made.
C14_ModeDecision ==
    /\ pc \in Decided => mode = ExpectedMode
    /\ up.calls > 0 => mode = ExpectedMode /\ up.calls = 1

\* C15: in streaming mode the caller's response has status 200, content type
\* text/event-stream and the headers Cache-Control: no-cache and
\* Connection: keep-alive, whatever status and headers the upstream sent.
C15_StreamingHeadFixed ==
    mode = "streaming" =>
        /\ out.status = 200
        /\ out.media_type = {"text/event-stream"}
        /\ out.headers = {<<"cache-control", "no-cache">>,
                          <<"connection", "keep-alive">>}

\* An upstream answer of status 500 has been relayed under status 200.
C15_Witness ==
    /\ mode = "streaming"
    /\ resp.status_code = 500
    /\ delivered # <<>>
    /\ out.status = 200

\* The prompt member of the body is a string.
StringPrompt == body.t = "obj" /\ HasKey(body, "prompt") /\ Get(body, "prompt").t = "str"

\* The prompt step has logged exactly the prompt string of the body.
PromptLoggedUnchanged ==
    /\ pc = "forward"
    /\ logs = <<[kind |-> "prompt", text |-> Get(body, "prompt").s]>>

\* C16 as stated: for a body with a string prompt member, a prompt step that
\* has extracted a prompt has extracted that string, whatever other members
\* the body has.
C16_StringPromptUnchanged ==
    (pc = "forward" /\ StringPrompt) => PromptLoggedUnchanged

\* C16, amended: for a body with a string prompt member and no messages
\* member the prompt step ends with that string as the extracted prompt,
\* whatever other members the body has.
C16_StringPromptUnchangedWithoutMessages ==
    (pc # "prompt" /\ StringPrompt /\ ~HasKey(body, "messages")) => PromptLoggedUnchanged

\* A string prompt beside two other members has been extracted unchanged.
C16_Witness ==
    /\ pc = "forward"
    /\ body = JObj(<<Member("model", JStr("m")), Member("prompt", JStr("Say hi")),
                     Member("stream", JBool(TRUE))>>)
    /\ logs = <<[kind |-> "prompt", text |-> "Say hi"]>>

\* The three counters of a usage record.
UsageKeys == {"prompt_tokens", "completion_tokens", "total_tokens"}

\* The counter k the response document promises: the member k of its usage
\* object, 0 when there is no usage object or no such member.
UsageField(data, k) ==
    LET u == Get(data, "usage") IN
    IF u.t = "obj" /\ HasKey(u, k) THEN Get(u, k) ELSE JNum(0)

\* C17: for a response that is a JSON object, the usage extraction run by
\* the buffered branch returns three counters, each a non-negative integer:
\* the member of the usage object when present, 0 otherwise; and these are
\* the counters of the usage log line.
C17_UsageCountersAreNaturals ==
    LET parsed == json_loads(resp.content) IN
    ( /\ mode = "buffered"
      /\ pc \in {"b_return", "done"}
      /\ resp.status_code = 200
      /\ ~parsed.raised
      /\ parsed.v.t = "obj" ) =>
        LET usage == extract_usage_from_response(parsed.v) IN
        /\ ~usage.raised
        /\ \A k \in UsageKeys :
              /\ usage.v[k] = UsageField(parsed.v, k)
              /\ usage.v[k].t = "num"
              /\ usage.v[k].n >= 0
        /\ \E i \in 1..Len(logs) :
              logs[i] = [kind |-> "usage",
                         text |-> "prompt_tokens=" \o NumStr(usage.v.prompt_tokens.n)
                                  \o " completion_tokens=" \o NumStr(usage.v.completion_tokens.n)
                                  \o " total_tokens=" \o NumStr(usage.v.total_tokens.n)]

\* The usage and response-text lines of a log.
ExtractionLines(ls) == SelectSeq(ls, LAMBDA l : l.kind \in {"usage", "text"})

\* C18: the usage and response-text lines are logged by the buffered log
\* step only, and only for a response of status 200 with a non-empty body;
\* that step always goes on to the return whatever the extraction met, and
\* leaves the response untouched, which is then returned as it was received.
C18_BufferedFinalization ==
    [][ /\ pc = "b_log" =>
              /\ pc' = "b_return"
              /\ resp' = resp /\ out' = out
              /\ logs' # logs => resp.status_code = 200 /\ resp.content # ""
        /\ pc # "b_log" => ExtractionLines(logs') = ExtractionLines(logs)
        /\ pc = "b_return" =>
              /\ pc' = "done"
              /\ out' = [status |-> resp.status_code, headers |-> resp.headers,
                         media_type |-> HeaderGet(resp.headers, "content-type"),
                         content |-> resp.content] ]_vars

\* A 200 response whose message is a string, not an object, has been
\* returned after the text extraction raised on it.
C18_Witness ==
    /\ mode = "buffered"
    /\ pc = "done"
    /\ resp.status_code = 200
    /\ resp.content = "{\"choices\":[{\"message\":\"oops\"}]}"
    /\ LogKinds = {"usage"}
    /\ out.status = 200
    /\ out.content = resp.content

\* The chunk is one line `data: {"choices":[...]}`, alone or followed by
\* the blank line.
IsDataLine(c) ==
    /\ Len(c) >= 3
    /\ c[1] = DataAtom /\ c[2] = OpenAtom
    /\ LET end == IF c[Len(c)] = NlAtom THEN Len(c) - 1 ELSE Len(c) IN
       /\ end >= 3
       /\ c[end] = CloseAtom
       /\ \A i \in 3..(end - 1) : c[i].k = "choice"

\* The non-empty delta contents of the choices of a data line, in order.
LineContents(c) ==
    LET choices == SelectSeq(c, LAMBDA a : a.k = "choice" /\ a.c # "")
    IN  [i \in 1..Len(choices) |-> JStr(choices[i].c)]

\* C19: the try block appends to the accumulator every non-empty delta
\* content of a chunk that is one data line, in choice order, whatever the
\* content text holds; for any other chunk it leaves the accumulator as it
\* is.
C19_OneLineExtraction ==
    [][ pc = "s_extract" =>
            full_content' = full_content \o
                (IF IsDataLine(chunk) THEN LineContents(chunk) ELSE <<>>) ]_vars

\* The delta contents of request t's own upstream stream.
OwnFragments(t) == {JStr(TaskContent(t, i)) : i \in 1..MaxPairFrames}

\* The text request t logs at the end of its stream.
TaskText(t) ==
    Join([i \in 1..Len(tasks[t].full_content) |-> tasks[t].full_content[i].s], "")

\* Every request's accumulator, relayed bytes and log line are made of its
\* own stream alone.
OwnStateOnly ==
    /\ \A t \in TaskIds :
          /\ \A i \in 1..Len(tasks[t].full_content) :
                tasks[t].full_content[i] \in OwnFragments(t)
          /\ IsPrefix(tasks[t].delivered, TaskStream(t))
          /\ tasks[t].pc = "done" =>
                /\ tasks[t].delivered = TaskStream(t)
                /\ tasks[t].full_content # <<>> =>
                      \E i \in 1..Len(logs) : logs[i].text = TaskText(t)
    /\ \A i \in 1..Len(logs) :
          \E t \in TaskIds :
              /\ tasks[t].pc = "done"
              /\ tasks[t].full_content # <<>>
              /\ logs[i] = [kind |-> "stream", text |-> TaskText(t)]
    /\ Len(logs) <= Cardinality({t \in TaskIds : tasks[t].pc = "done"})

\* C20: with two streaming requests in flight, under every interleaving of
\* their steps, each request's accumulator holds fragments of its own
\* upstream chunks only, a stream-end log line holds the text of one request
\* only, every step changes the state of one request only, and a step in
\* which a request fails or is cancelled leaves the log as it is.
C20_RequestsIsolated ==
    [][ /\ OwnStateOnly'
        /\ \E t \in TaskIds :
              /\ \A u \in TaskIds \ {t} : tasks'[u] = tasks[u]
              /\ tasks'[t].pc \in {"aborted", "cancelled"} => logs' = logs ]_vars

\* The first request was cut off by an upstream reset after part of its
\* stream had been relayed; the second, interleaved with it, has relayed its
\* whole stream and logged its own text.
C20_Witness ==
    /\ tasks[1].pc = "aborted"
    /\ tasks[1].failure = "reset"
    /\ tasks[1].delivered # <<>>
    /\ tasks[1].full_content # <<>>
    /\ tasks[2].pc = "done"
    /\ tasks[2].delivered = TaskStream(2)
    /\ logs = <<[kind |-> "stream", text |-> TaskContent(2, 1)]>>

====
